---- MODULE Spec2Model ----
(***************************************************************************)
(* Label-noise injection of data/utils.py: noisify dispatches on the noise *)
(* type to noisify_pairflip or noisify_multiclass_symmetric, which build a *)
(* class-transition matrix and hand it to multiclass_noisify, which draws  *)
(* one class per label from a generator seeded by random_state.            *)
(*                                                                         *)
(* Arithmetic.  Probabilities are exact rationals with the common          *)
(* denominator Unit: the value v of the model stands for v / Unit, so One  *)
(* stands for 1.0.  Noise levels are the multiples of 1 / NoiseDen from    *)
(* -1 / NoiseDen to 1 + 1 / NoiseDen.  Floating-point rounding is below    *)
(* this granularity and is not modelled.                                   *)
(*                                                                         *)
(* Generator.  np.random.RandomState(seed) is a fixed but unspecified      *)
(* function of the seed: the k-th number it yields is stream[<<seed, k>>]. *)
(* The value is chosen when it is first read and is the same ever after.   *)
(* multinomial(1, row, 1) is modelled as one uniform number per draw,      *)
(* turned into a class by the cumulative sums of the row.  Numbers that    *)
(* draw the same class in every matrix in play are represented by one.     *)
(*                                                                         *)
(* noise_rate is a Python number (a division by zero raises) and           *)
(* random_state is an integer.                                             *)
(***************************************************************************)
EXTENDS Integers, Sequences, FiniteSets

VARIABLES pc, args, matrix, new_y, idx, flipper, result, error, stream

vars == <<pc, args, matrix, new_y, idx, flipper, result, error, stream>>

\* ---- bounds ----
NoiseDen == 2
MaxClasses == 3
MaxLen == 2
MaxSeed == 1

Calls == {1, 2}

RECURSIVE Fact(_)
Fact(k) == IF k <= 1 THEN 1 ELSE k * Fact(k - 1)

Unit == NoiseDen * Fact(MaxClasses - 1)
One == Unit

\* the noise level k / NoiseDen on the scale of Unit
Level(k) == k * (Unit \div NoiseDen)

None == <<>>
Some(x) == <<x>>

RECURSIVE SeqsUpTo(_, _)
SeqsUpTo(S, k) ==
  IF k = 0 THEN {<<>>}
  ELSE LET shorter == SeqsUpTo(S, k - 1)
       IN shorter \cup {Append(s, x) : s \in {t \in shorter : Len(t) = k - 1}, x \in S}

NoiseTypes == {"pairflip", "symmetric", "gaussian", "None"}

Args ==
  [nb_classes   : -1 .. MaxClasses,
   train_labels : SeqsUpTo(0 .. MaxClasses - 1, MaxLen),
   noise_type   : NoiseTypes,
   noise_rate   : {Level(k) : k \in -1 .. NoiseDen + 1},
   random_state : 0 .. MaxSeed]

\* the configurations the concurrent specification draws from: two classes,
\* one or two labels, no noise or the smallest positive noise level
ConcArgs ==
  {a \in Args : /\ a.noise_type \in {"pairflip", "symmetric"}
                /\ a.nb_classes = 2
                /\ a.noise_rate \in {0, Level(1)}
                /\ Len(a.train_labels) \in {1, 2}
                /\ \A p \in 1 .. Len(a.train_labels) : a.train_labels[p] < a.nb_classes}

\* ---- matrices: functions on (0..C-1) x (0..C-1) ----
Idx(C) == (0 .. C - 1) \X (0 .. C - 1)

eye(C) == [p \in Idx(C) |-> IF p[1] = p[2] THEN One ELSE 0]

ones(C) == [p \in Idx(C) |-> One]

RECURSIVE RowSum(_, _, _)
RowSum(m, i, j) == IF j < 0 THEN 0 ELSE m[<<i, j>>] + RowSum(m, i, j - 1)

RECURSIVE MaxOf(_)
MaxOf(y) == IF Len(y) = 1 THEN y[1]
            ELSE LET r == MaxOf(Tail(y)) IN IF y[1] > r THEN y[1] ELSE r

\* for i in range(1, nb_classes - 1): matrix[i, i], matrix[i, i + 1] = 1. - n, n
RECURSIVE pairflip_loop(_, _, _, _)
pairflip_loop(m, i, C, n) ==
  IF i >= C - 1 THEN m
  ELSE pairflip_loop([m EXCEPT ![<<i, i>>] = One - n, ![<<i, i + 1>>] = n], i + 1, C, n)

\* the guard with >= for >
noise_nonnegative(n) == n >= 0

\* if n > 0.0:
noise_positive(n) == n > 0

\* the pairflip matrix whose last row does not wrap to class 0
pairflip_matrix_nowrap(C, n) ==
  IF n > 0
  THEN LET m0 == [eye(C) EXCEPT ![<<0, 0>>] = One - n, ![<<0, 1>>] = n]
           m1 == pairflip_loop(m0, 1, C, n)
       IN  [m1 EXCEPT ![<<C - 1, C - 1>>] = One - n]
  ELSE eye(C)

\* the matrix of noisify_pairflip, for C >= 2
pairflip_matrix(C, n) ==
  IF noise_positive(n)
  THEN LET m0 == [eye(C) EXCEPT ![<<0, 0>>] = One - n, ![<<0, 1>>] = n]
           m1 == pairflip_loop(m0, 1, C, n)
       IN  [m1 EXCEPT ![<<C - 1, C - 1>>] = One - n, ![<<C - 1, 0>>] = n]
  ELSE eye(C)

\* for i in range(1, nb_classes - 1): matrix[i, i] = 1. - n
RECURSIVE symmetric_loop(_, _, _, _)
symmetric_loop(m, i, C, n) ==
  IF i >= C - 1 THEN m
  ELSE symmetric_loop([m EXCEPT ![<<i, i>>] = One - n], i + 1, C, n)

\* the division by nb_classes for nb_classes - 1
scaled_ones_by_classes(C, n) == [p \in Idx(C) |-> (n \div C) * (ones(C)[p] \div One)]

\* matrix = (n / (nb_classes - 1)) * np.ones(...), for C = 0 or C >= 2
scaled_ones(C, n) == [p \in Idx(C) |-> (n \div (C - 1)) * (ones(C)[p] \div One)]

\* the symmetric matrix whose last diagonal entry is not overwritten
symmetric_matrix_skip_last(C, n) ==
  IF n > 0
  THEN LET m0 == [scaled_ones(C, n) EXCEPT ![<<0, 0>>] = One - n]
       IN  symmetric_loop(m0, 1, C, n)
  ELSE scaled_ones(C, n)

\* the matrix of noisify_multiclass_symmetric, for C >= 2
symmetric_matrix(C, n) ==
  IF noise_positive(n)
  THEN LET m0 == [scaled_ones(C, n) EXCEPT ![<<0, 0>>] = One - n]
           m1 == symmetric_loop(m0, 1, C, n)
       IN  [m1 EXCEPT ![<<C - 1, C - 1>>] = One - n]
  ELSE scaled_ones(C, n)

\* ---- the state of one call after a step ----
Raised(e, m) ==
  [pc |-> "raised", matrix |-> m, new_y |-> <<>>, flipper |-> None,
   result |-> None, error |-> e]

Returned(y, rate, m) ==
  [pc |-> "returned", matrix |-> m, new_y |-> <<>>, flipper |-> None,
   result |-> Some([labels |-> y, actual_noise |-> rate]), error |-> ""]

\* flipper = np.random.RandomState(random_state): a generator of the call,
\* at the start of the stream of its seed
RandomState(seed) == [seed |-> seed, pos |-> 0]

\* multiclass_noisify up to the loop: the assertions, the copy, the generator
multiclass_noisify(y, m, C, seed) ==
  IF Len(y) = 0 THEN Raised("ValueError@105", Some(m))
  ELSE IF ~(MaxOf(y) < C) THEN Raised("AssertionError@105", Some(m))
  ELSE IF \E i \in 0 .. C - 1 : RowSum(m, i, C - 1) # One
       THEN Raised("AssertionError@108", Some(m))
  ELSE IF \E p \in Idx(C) : ~(m[p] >= 0) THEN Raised("AssertionError@109", Some(m))
  ELSE [pc |-> "sampling", matrix |-> Some(m), new_y |-> y,
        flipper |-> Some(RandomState(seed)), result |-> None, error |-> ""]

\* noisify_pairflip up to the loop of multiclass_noisify
noisify_pairflip(y, n, seed, C) ==
  IF C < 0 THEN Raised("ValueError@128", None)
  ELSE IF noise_positive(n)
  THEN IF C = 0 THEN Raised("IndexError@133", Some(eye(C)))
       ELSE IF C = 1
       THEN Raised("IndexError@133", Some([eye(C) EXCEPT ![<<0, 0>>] = One - n]))
       ELSE multiclass_noisify(y, pairflip_matrix(C, n), C, seed)
  ELSE Returned(y, None, Some(eye(C)))

\* noisify_multiclass_symmetric up to the loop of multiclass_noisify
noisify_multiclass_symmetric(y, n, seed, C) ==
  IF C < 0 THEN Raised("ValueError@153", None)
  ELSE IF C = 1 THEN Raised("ZeroDivisionError@155", Some(ones(C)))
  ELSE IF noise_positive(n)
  THEN IF C = 0 THEN Raised("IndexError@159", Some(scaled_ones(C, n)))
       ELSE multiclass_noisify(y, symmetric_matrix(C, n), C, seed)
  ELSE Returned(y, None, Some(symmetric_matrix(C, n)))

\* the dispatch whose last branch is the symmetric noise
noisify_fallthrough(a) ==
  IF a.noise_type = "pairflip"
  THEN noisify_pairflip(a.train_labels, a.noise_rate, a.random_state, a.nb_classes)
  ELSE noisify_multiclass_symmetric(a.train_labels, a.noise_rate, a.random_state,
                                    a.nb_classes)

\* noisify: the dispatch on noise_type
noisify(a) ==
  IF a.noise_type = "pairflip"
  THEN noisify_pairflip(a.train_labels, a.noise_rate, a.random_state, a.nb_classes)
  ELSE IF a.noise_type = "symmetric"
  THEN noisify_multiclass_symmetric(a.train_labels, a.noise_rate, a.random_state,
                                    a.nb_classes)
  ELSE Raised("ValueError@183", None)

\* the index of the drawn class: the first whose cumulative probability
\* exceeds the uniform number u
multinomial(m, i, C, u) ==
  CHOOSE j \in 0 .. C - 1 :
    /\ RowSum(m, i, j) > u
    /\ \A k \in 0 .. j - 1 : RowSum(m, i, k) <= u

\* the index counted from 1
where_one_shifted(j) == j + 1

\* new_y[idx] = np.where(flipped == 1)[0]
where_one(j) == j

\* the position of a generator that all calls share
shared_pos(c) ==
  LET pos(d) == IF flipper[d] = None THEN 0 ELSE flipper[d][1].pos
  IN  pos(1) + pos(2)

\* the position in the stream that the next draw of call c reads
flipper_pos(c) == flipper[c][1].pos

\* the rate taken after y_train was replaced by the noisy labels
mean_not_equal_after_assign(noisy, y) ==
  <<Cardinality({p \in 1 .. Len(y) : noisy[p] # noisy[p]}), Len(y)>>

\* np.not_equal(y_train_noisy, y_train).mean(), as <<flips, length>>
mean_not_equal(noisy, y) ==
  <<Cardinality({p \in 1 .. Len(y) : noisy[p] # y[p]}), Len(y)>>

\* the assertion left out
assert_removed(rate) == TRUE

\* assert actual_noise > 0.0
assert_actual_noise(rate) == rate[1] > 0

AssertLine(a) == IF a.noise_type = "pairflip" THEN "AssertionError@141"
                 ELSE "AssertionError@167"

A(c) == args[c][1]

Set(c, out) ==
  /\ pc' = [pc EXCEPT ![c] = out.pc]
  /\ matrix' = [matrix EXCEPT ![c] = out.matrix]
  /\ new_y' = [new_y EXCEPT ![c] = out.new_y]
  /\ flipper' = [flipper EXCEPT ![c] = out.flipper]
  /\ result' = [result EXCEPT ![c] = out.result]
  /\ error' = [error EXCEPT ![c] = out.error]

Init ==
  /\ pc = [c \in Calls |-> "idle"]
  /\ args = [c \in Calls |-> None]
  /\ matrix = [c \in Calls |-> None]
  /\ new_y = [c \in Calls |-> <<>>]
  /\ idx = [c \in Calls |-> 0]
  /\ flipper = [c \in Calls |-> None]
  /\ result = [c \in Calls |-> None]
  /\ error = [c \in Calls |-> ""]
  /\ stream = <<>>

\* a call of noisify with arguments of S, up to the first draw
Noisify(c, S) ==
  /\ pc[c] = "idle"
  /\ \E a \in S :
       /\ args' = [args EXCEPT ![c] = Some(a)]
       /\ Set(c, noisify(a))
  /\ UNCHANGED <<idx, stream>>

\* The class drawn for a uniform number u is the first whose cumulative
\* probability exceeds u, so two numbers between the same two consecutive
\* cumulative sums draw the same class: the cumulative sums below 1, and 0,
\* stand for all the numbers a generator can yield.
Thresholds(m, C) ==
  {0} \cup {t \in {RowSum(m, p[1], p[2]) : p \in Idx(C)} : t < One}

\* the numbers that tell apart the draws of every matrix of ConcArgs
ConcUniforms ==
  UNION {LET out == noisify(a)
         IN  IF out.pc = "sampling" THEN Thresholds(out.matrix[1], a.nb_classes) ELSE {}
         : a \in ConcArgs}

\* one iteration of the loop of multiclass_noisify, the generator yielding
\* a number of U
Draw(c, U) ==
  /\ pc[c] = "sampling"
  /\ idx[c] < Len(A(c).train_labels)
  /\ LET i   == A(c).train_labels[idx[c] + 1]
         key == <<flipper[c][1].seed, flipper_pos(c) + 1>>
     IN \E u \in U :
          /\ key \in DOMAIN stream => u = stream[key]
          /\ stream' = [k \in DOMAIN stream \cup {key} |->
                          IF k = key THEN u ELSE stream[k]]
          /\ new_y' = [new_y EXCEPT ![c][idx[c] + 1] =
                          where_one(multinomial(matrix[c][1], i, A(c).nb_classes, u))]
  /\ flipper' = [flipper EXCEPT ![c][1].pos = @ + 1]
  /\ idx' = [idx EXCEPT ![c] = @ + 1]
  /\ UNCHANGED <<pc, args, matrix, result, error>>

\* the end of the loop: the realized rate, its assertion, the return
Finish(c) ==
  /\ pc[c] = "sampling"
  /\ idx[c] = Len(A(c).train_labels)
  /\ LET rate == mean_not_equal(new_y[c], A(c).train_labels)
     IN IF assert_actual_noise(rate)
        THEN Set(c, [Returned(new_y[c], Some(rate), matrix[c]) EXCEPT
                        !.new_y = new_y[c], !.flipper = flipper[c]])
        ELSE Set(c, [Raised(AssertLine(A(c)), matrix[c]) EXCEPT
                        !.new_y = new_y[c], !.flipper = flipper[c]])
  /\ UNCHANGED <<args, idx, stream>>

\* one call at a time
Next ==
  \/ Noisify(1, Args)
  \/ Draw(1, Thresholds(matrix[1][1], A(1).nb_classes))
  \/ Finish(1)

Spec == Init /\ [][Next]_vars

\* calls running side by side
NoisifyConc == \E c \in Calls : Noisify(c, ConcArgs)
DrawConc == \E c \in Calls : Draw(c, ConcUniforms)
FinishConc == \E c \in Calls : Finish(c)

NextConc == NoisifyConc \/ DrawConc \/ FinishConc

SpecConc == Init /\ [][NextConc]_vars

\* ---- the vocabulary of the properties ----
Called(c) == pc[c] # "idle"
Done(c) == pc[c] \in {"returned", "raised"}
KnownType(a) == a.noise_type \in {"pairflip", "symmetric"}
InUnitInterval(n) == n >= 0 /\ n <= One
LabelsInRange(a) ==
  \A p \in 1 .. Len(a.train_labels) :
     a.train_labels[p] >= 0 /\ a.train_labels[p] < a.nb_classes
ValidConfig(a) == KnownType(a) /\ a.nb_classes >= 2 /\ InUnitInterval(a.noise_rate)
RowStochastic(m, C) ==
  /\ \A i \in 0 .. C - 1 : RowSum(m, i, C - 1) = One
  /\ \A p \in Idx(C) : m[p] >= 0
Flips(noisy, y) == {p \in 1 .. Len(y) : noisy[p] # y[p]}

\* C1: with noise level 0, both noise types, C >= 2 and labels in [0, C), the
\* call returns the input labels and no realized rate, and creates no
\* generator and takes no draw.
C1_ZeroNoiseReturnsInput ==
  \A c \in Calls :
    (Called(c) /\ KnownType(A(c)) /\ A(c).nb_classes >= 2 /\ A(c).noise_rate = 0
       /\ LabelsInRange(A(c)))
    => /\ pc[c] = "returned"
       /\ result[c] = Some([labels |-> A(c).train_labels, actual_noise |-> None])
       /\ error[c] = ""
       /\ flipper[c] = None
       /\ idx[c] = 0
       /\ stream = <<>>

C1_Witness ==
  /\ Called(1) /\ A(1).noise_type = "symmetric" /\ A(1).nb_classes = 3
  /\ A(1).noise_rate = 0 /\ Len(A(1).train_labels) = 2 /\ LabelsInRange(A(1))
  /\ pc[1] = "returned"

C3_PairflipMatrix ==
  \A c \in Calls :
    (Called(c) /\ ValidConfig(A(c)) /\ A(c).noise_type = "pairflip")
    => /\ matrix[c] # None
       /\ DOMAIN matrix[c][1] = Idx(A(c).nb_classes)
       /\ \A i, j \in 0 .. A(c).nb_classes - 1 :
            matrix[c][1][<<i, j>>] =
              IF j = i THEN One - A(c).noise_rate
              ELSE IF j = (i + 1) % A(c).nb_classes THEN A(c).noise_rate
              ELSE 0

C3_Witness ==
  /\ Called(1) /\ A(1).noise_type = "pairflip" /\ A(1).nb_classes = 3
  /\ A(1).noise_rate > 0 /\ A(1).noise_rate < One
  /\ matrix[1] # None
  /\ matrix[1][1][<<2, 0>>] = A(1).noise_rate
  /\ matrix[1][1][<<2, 2>>] = One - A(1).noise_rate
  /\ matrix[1][1][<<0, 2>>] = 0

C5_DomainAndLength ==
  \A c \in Calls :
    (Called(c) /\ ValidConfig(A(c)) /\ LabelsInRange(A(c)))
    => /\ pc[c] = "returned"
           => /\ Len(result[c][1].labels) = Len(A(c).train_labels)
              /\ \A p \in 1 .. Len(result[c][1].labels) :
                   result[c][1].labels[p] \in 0 .. A(c).nb_classes - 1
       /\ flipper[c] # None
           => /\ Len(new_y[c]) = Len(A(c).train_labels)
              /\ \A p \in 1 .. idx[c] :
                   /\ new_y[c][p] \in 0 .. A(c).nb_classes - 1
                   /\ matrix[c][1][<<A(c).train_labels[p], new_y[c][p]>>] > 0

C5_Witness ==
  /\ pc[1] = "returned" /\ ValidConfig(A(1)) /\ LabelsInRange(A(1))
  /\ A(1).nb_classes = 3 /\ A(1).noise_rate > 0
  /\ Len(A(1).train_labels) = 2
  /\ result[1][1].labels[1] # A(1).train_labels[1]
  /\ result[1][1].labels[2] = A(1).train_labels[2]

\* C6: two calls with the same labels, noise type, noise level, class count
\* and seed end the same way, with the same labels and the same realized
\* rate, however their draws are interleaved with each other's.
C6_SameInputsSameResult ==
  \A c1, c2 \in Calls :
    (Done(c1) /\ Done(c2) /\ args[c1] = args[c2])
    => /\ pc[c1] = pc[c2]
       /\ result[c1] = result[c2]
       /\ error[c1] = error[c2]
       /\ new_y[c1] = new_y[c2]

C6_Witness ==
  /\ pc[1] = "returned" /\ pc[2] = "returned" /\ args[1] = args[2]
  /\ A(1).noise_rate > 0 /\ A(1).noise_rate < One
  /\ Len(A(1).train_labels) = 2
  /\ idx[1] = 2 /\ idx[2] = 2
  /\ result[1][1].labels # A(1).train_labels

\* C7: with a positive noise level, a call that returns reports the fraction
\* of positions whose label changed, and that fraction is positive; a call
\* whose sampling changed no label is aborted by the assertion and has no
\* result.
C7_RealizedRate ==
  \A c \in Calls :
    (Called(c) /\ KnownType(A(c)) /\ A(c).noise_rate > 0)
    => /\ pc[c] = "returned"
           => LET r == result[c][1]
                  k == Cardinality(Flips(r.labels, A(c).train_labels))
              IN  /\ r.actual_noise = Some(<<k, Len(A(c).train_labels)>>)
                  /\ k > 0
                  /\ Len(A(c).train_labels) > 0
       /\ (Done(c) /\ flipper[c] # None /\ new_y[c] = A(c).train_labels)
           => /\ pc[c] = "raised"
              /\ error[c] = AssertLine(A(c))
              /\ result[c] = None

C7_Witness ==
  /\ pc[1] = "returned" /\ KnownType(A(1)) /\ A(1).noise_rate > 0
  /\ result[1][1].actual_noise = Some(<<1, 2>>)

\* C8: a call of a known noise type with a class count below 2 or a noise
\* level outside [0, 1] ends in an error and has no result.
C8_InvalidConfigurationFails ==
  \A c \in Calls :
    (Called(c) /\ KnownType(A(c))
       /\ (A(c).nb_classes < 2 \/ ~InUnitInterval(A(c).noise_rate)))
    => /\ pc[c] = "raised"
       /\ result[c] = None

\* C9: a call whose noise type is neither pairflip nor symmetric raises the
\* unsupported-type error: it builds no matrix, creates no generator, takes
\* no draw, copies no label and has no result.
C9_UnsupportedType ==
  \A c \in Calls :
    (Called(c) /\ ~KnownType(A(c)))
    => /\ pc[c] = "raised"
       /\ error[c] = "ValueError@183"
       /\ matrix[c] = None
       /\ flipper[c] = None
       /\ idx[c] = 0
       /\ new_y[c] = <<>>
       /\ result[c] = None
       /\ stream = <<>>

C9_Witness ==
  /\ pc[1] = "raised" /\ A(1).noise_type = "gaussian"
  /\ A(1).nb_classes = 3 /\ Len(A(1).train_labels) = 2
  /\ A(1).noise_rate > 0 /\ A(1).noise_rate < One

\* C10: for a valid configuration with 0 < n < 1 and at least one label, all
\* labels in [0, C), the call is aborted exactly when every position drew
\* its own class, and then by the assertion on the realized rate, without a
\* result; this happens already with one label.
C10_AbortByChance ==
  \A c \in Calls :
    (Done(c) /\ ValidConfig(A(c)) /\ LabelsInRange(A(c))
       /\ A(c).noise_rate > 0 /\ A(c).noise_rate < One
       /\ Len(A(c).train_labels) > 0)
    => /\ idx[c] = Len(A(c).train_labels)
       /\ pc[c] = "raised" <=> new_y[c] = A(c).train_labels
       /\ pc[c] = "raised" => error[c] = AssertLine(A(c)) /\ result[c] = None

C10_Witness ==
  /\ pc[1] = "raised" /\ ValidConfig(A(1)) /\ LabelsInRange(A(1))
  /\ A(1).noise_rate > 0 /\ A(1).noise_rate < One
  /\ Len(A(1).train_labels) = 1
  /\ idx[1] = 1
  /\ new_y[1] = A(1).train_labels
  /\ error[1] = AssertLine(A(1))
  /\ result[1] = None
====
